---- MODULE Spec2Model ----
(***************************************************************************)
(* Model of the inertial dead-reckoning estimator of ImuDP                 *)
(* (src/imu_dead_reckoning.py: IMUDeadReckoningFixed and its wrapper       *)
(* AdvancedTrailTracker).                                                  *)
(*                                                                         *)
(* The estimator works on floating point numbers; the model works on       *)
(* fixed-point integers in these units:                                    *)
(*   time          1 tick  = 0.1 s                                         *)
(*   acceleration  1 unit  = 0.01 m/s^2                                    *)
(*   velocity      1 unit  = 0.001 m/s     (acceleration unit * tick)      *)
(*   position      1 unit  = 0.0001 m      (velocity unit * tick)          *)
(*   angular rate  1 unit  = 0.1 deg/s                                     *)
(*   angle         1 unit  = 0.01 deg      (angular rate unit * tick)      *)
(* so that every integration step (x += rate * dt) is exact.  Products     *)
(* with fractional coefficients are rounded to the nearest unit.  The      *)
(* rounding of the source's double arithmetic (one unit in the last place) *)
(* is far below these units and is not modelled.                           *)
(* An optional value (None in the source) is the empty sequence, a present *)
(* value v is <<v>>.                                                       *)
(***************************************************************************)
EXTENDS Integers, Sequences, FiniteSets

VARIABLES imu, call, ret, host, mm, magnetic_model, fingerprint_storage

vars == <<imu, call, ret, host, mm, magnetic_model, fingerprint_storage>>

-----------------------------------------------------------------------------
(* Bounds of the model *)

\* integrated samples between two resets: of a stream,
MaxSamples == 3
\* of samples with arbitrary timestamps,
MaxTimed == 2
\* of a walk,
MaxWalk == 6
\* of a stream that repeats one reading,
MaxConst == 4
\* of a stream fed through the tracker,
MaxTracked == 1
\* of a stream with magnetometer readings
MaxMag == 2
MaxTurn == 20
MaxIdle == 3
MaxIdleTime == 40
MaxServerTime == 1
MaxSpin == 3
MaxStroll == 3
MaxFacade == 2
MaxEarly == 2
MaxOverflow == 2
MaxVaried == 2
MaxFingerprints == 2
MaxPackets == 4

-----------------------------------------------------------------------------
(* Units *)

TicksPerSec == 10
HalfTurn == 18000
FullTurn == 2 * HalfTurn
TrigScale == 1000

None == <<>>
Some(x) == <<x>>
IsNone(o) == Len(o) = 0
Val(o) == o[1]

-----------------------------------------------------------------------------
(* Arithmetic helpers *)

Abs(x) == IF x < 0 THEN -x ELSE x
Max2(a, b) == IF a >= b THEN a ELSE b

\* a / b (b > 0) rounded to the nearest integer, halves away from zero
RDiv(a, b) == IF a >= 0 THEN (2 * a + b) \div (2 * b) ELSE -((2 * (-a) + b) \div (2 * b))

\* Newton's iteration for the integer square root, from a guess r >= sqrt(n)
RECURSIVE SqrtNewton(_, _)
SqrtNewton(n, r) ==
    LET q == (r + n \div r) \div 2
    IN IF q >= r THEN r ELSE SqrtNewton(n, q)
\* floor of the square root
ISqrt(n) ==
    IF n = 0 THEN 0
    ELSE SqrtNewton(n, IF n < 100 THEN 10
                       ELSE IF n < 10000 THEN 100
                       ELSE IF n < 1000000 THEN 1000
                       ELSE IF n < 100000000 THEN 10000
                       ELSE 46341)

SqNorm2(v) == v[1] * v[1] + v[2] * v[2]
\* np.linalg.norm
Norm2(v) == ISqrt(SqNorm2(v))
Norm3(v) == ISqrt(v[1] * v[1] + v[2] * v[2] + v[3] * v[3])

Sub3(a, b) == <<a[1] - b[1], a[2] - b[2], a[3] - b[3]>>

\* the gravity estimate is kept in 1/GravityScale of the acceleration unit
\* (0.0001 m/s^2), so that its slow smoothing is not lost in the rounding
GravityScale == 100
Fine3(v) == <<v[1] * GravityScale, v[2] * GravityScale, v[3] * GravityScale>>
Coarse3(g) == <<RDiv(g[1], GravityScale), RDiv(g[2], GravityScale), RDiv(g[3], GravityScale)>>

\* alpha * a + (1 - alpha) * b, alpha = num / den, componentwise on 3-vectors
Ema3(num, den, a, b) ==
    LET e(i) == RDiv(num * a[i] + (den - num) * b[i], den)
    IN <<e(1), e(2), e(3)>>

RECURSIVE SeqSum(_)
SeqSum(s) == IF s = <<>> THEN 0 ELSE Head(s) + SeqSum(Tail(s))
RECURSIVE SeqSumSq(_)
SeqSumSq(s) == IF s = <<>> THEN 0 ELSE Head(s) * Head(s) + SeqSumSq(Tail(s))
RECURSIVE SeqMax(_)
SeqMax(s) == IF Len(s) = 1 THEN Head(s) ELSE Max2(Head(s), SeqMax(Tail(s)))
RECURSIVE SeqMin(_)
SeqMin(s) == IF Len(s) = 1 THEN Head(s) ELSE -Max2(-Head(s), -SeqMin(Tail(s)))

\* np.std(buf) < thr, decided without the square root:
\* var = (n * sum(x^2) - sum(x)^2) / n^2
StdBelow(buf, thr) ==
    LET n == Len(buf)
    IN n * SeqSumSq(buf) - SeqSum(buf) * SeqSum(buf) < thr * thr * n * n

\* deque(maxlen = n).append
DequeAppend(buf, x, n) ==
    LET b == Append(buf, x) IN IF Len(b) > n THEN Tail(b) ELSE b

\* math.sin for an angle in 0..HalfTurn, times TrigScale (Bhaskara's rational
\* approximation 4 d (180 - d) / (40500 - d (180 - d)), d in degrees)
SinHalf(x) ==
    LET p == (x * (HalfTurn - x)) \div 1000
    IN RDiv(4 * TrigScale * p, 405000 - p)
\* math.sin, times TrigScale
Sin(a) ==
    LET m == a % FullTurn
    IN IF m <= HalfTurn THEN SinHalf(m) ELSE -SinHalf(m - HalfTurn)

\* atan of a / b for 0 <= a <= b, b > 0, in angle units:
\* 45 z + 15.64 z (1 - z) degrees with z = a / b
AtanUnit(a, b) == RDiv(4500 * a, b) + RDiv(1564 * a * (b - a), b * b)
\* math.atan2(y, x) in angle units, in (-HalfTurn, HalfTurn]
Atan2(y, x) ==
    LET ay == Abs(y)
        ax == Abs(x)
        q == IF ax = 0 /\ ay = 0 THEN 0
             ELSE IF ay <= ax THEN AtanUnit(ay, ax)
             ELSE HalfTurn \div 2 - AtanUnit(ax, ay)
        h == IF x >= 0 THEN q ELSE HalfTurn - q
    IN IF y >= 0 THEN h ELSE -h

-----------------------------------------------------------------------------
(* Configuration of IMUDeadReckoningFixed.__init__, in model units *)

\* sample_rate_hz handed to the constructor
SampleHz == 8
SnapToOriginRadius == 5000
GravityAlphaPermille == 995
HpAlphaPercent == 92
MagAlphaPercent == 25
AccelStdThreshold == 15
GyroStdThreshold == 12
StationaryRequiredWindows == 2
ThresholdPeaksGravity == 35
ThresholdPeaksUserAcc == 35
UserAccThreshold == 15
UserGravityThresholdX == 70
UserGravityThresholdY == 70
NoMotionTimeout == 30
VelocityDampingPercent == 70
VelocityThreshold == 30
MaxSpeed == 4000
\* the trail capacity the specification of the trail gives (the source has none)
TrailCapacity == 1000
\* AdvancedTrailTracker.accel_move_threshold
AccelMoveThreshold == 10
\* MagneticFieldModel._cache_max_size
CacheMaxSize == 100
\* process_sensor_data: the number of packets recent_data keeps
RecentCapacity == 100
\* constants written inline in update
SmoothAlphaPercent == 99
StdGravity == 981
GravityBand == 150
Deadzone == 1

\* self.win_len: max(4, int(round(sample_hz * 0.5))), Python rounding halves
\* to even
WinLen(hz) ==
    LET k == hz \div 2
    IN Max2(4, IF hz % 2 = 0 THEN k ELSE IF k % 2 = 0 THEN k ELSE k + 1)

\* the state of a freshly constructed estimator
Construct(initial_position, initial_heading_rad, sample_rate_hz) ==
    [ position |-> initial_position,
      velocity |-> <<0, 0>>,
      heading |-> initial_heading_rad,
      last_timestamp |-> None,
      origin |-> initial_position,
      snap_to_origin_radius |-> Some(SnapToOriginRadius),
      sample_hz |-> sample_rate_hz,
      win_len |-> WinLen(sample_rate_hz),
      accel_mag_buf |-> <<>>,
      gyro_mag_buf |-> <<>>,
      accel_bias |-> <<0, 0, 0>>,
      gyro_bias |-> <<0, 0, 0>>,
      gravity |-> Fine3(<<0, 0, StdGravity>>),
      hp_state |-> <<0, 0, 0>>,
      gravity_buf |-> <<>>,
      user_acc_buf |-> <<>>,
      gravity_x_buf |-> <<>>,
      gravity_y_buf |-> <<>>,
      stationary_windows |-> 0,
      is_stationary |-> FALSE,
      last_motion_time |-> None,
      history |-> <<>> ]

-----------------------------------------------------------------------------
(* Helpers of IMUDeadReckoningFixed *)

\* a clamp that lets every speed through
ClampSpeedOff(v, max_speed) == v

\* _clamp_speed: v * (max_speed / speed) when speed > max_speed.  The scaling
\* shortens v to length max_speed; the model quantises the scaled components
\* toward zero, so that the quantisation does not lengthen the vector again.
ClampSpeed(v, max_speed) ==
    IF SqNorm2(v) > max_speed * max_speed
    THEN LET r == ISqrt(SqNorm2(v))
             speed == IF r * r = SqNorm2(v) THEN r ELSE r + 1
             toward_zero(a, b) == IF a >= 0 THEN a \div b ELSE -((-a) \div b)
         IN <<toward_zero(v[1] * max_speed, speed), toward_zero(v[2] * max_speed, speed)>>
    ELSE v

\* a wrap onto [-HalfTurn, HalfTurn)
WrapAngleLowerClosed(angle) == ((angle + HalfTurn) % FullTurn) - HalfTurn

\* _wrap_angle: atan2(sin(angle), cos(angle)), the representative of the
\* angle in (-HalfTurn, HalfTurn]
WrapAngle(angle) == ((angle + HalfTurn - 1) % FullTurn) - (HalfTurn - 1)

\* math.degrees(heading) % 360.0
HeadingDeg(heading) == heading % FullTurn

\* get_state: a zero last_timestamp is falsy and is reported as None
GetState(s) ==
    [ position |-> s.position,
      velocity |-> s.velocity,
      speed |-> Norm2(s.velocity),
      heading_rad |-> s.heading,
      heading_deg |-> HeadingDeg(s.heading),
      is_stationary |-> s.is_stationary,
      last_timestamp |-> IF ~IsNone(s.last_timestamp) /\ Val(s.last_timestamp) # 0
                         THEN s.last_timestamp ELSE None ]

-----------------------------------------------------------------------------
(* IMUDeadReckoningFixed.update, step by step *)

\* a dt test that lets a repeated timestamp through
BadDtRepeated(dt) == dt < 0 \/ dt > TicksPerSec

\* the dt test of update: dt <= 0 or dt > 1.0 s
BadDt(dt) == dt <= 0 \/ dt > TicksPerSec

\* a first sample that keeps the default gravity
FirstSampleDefaultGravity(s, acc, ts) ==
    [s EXCEPT !.last_timestamp = Some(ts), !.last_motion_time = Some(ts)]

\* a first sample that is also pushed into the accelerometer window
FirstSampleBuffered(s, acc, ts) ==
    [s EXCEPT !.last_timestamp = Some(ts),
              !.last_motion_time = Some(ts),
              !.gravity = Fine3(acc),
              !.accel_mag_buf = <<Norm3(acc)>>]
\* first sample: record the timestamp and take the reading as gravity
FirstSample(s, acc, ts) ==
    [s EXCEPT !.last_timestamp = Some(ts),
              !.last_motion_time = Some(ts),
              !.gravity = Fine3(acc)]

\* a skip that also stops the estimator
RejectSampleStopping(s, ts) ==
    [s EXCEPT !.last_timestamp = Some(ts), !.velocity = <<0, 0>>]
\* a skip that does not advance last_timestamp
RejectSampleKeeping(s, ts) == s

\* bad dt: skip the sample but advance last_timestamp
RejectSample(s, ts) == [s EXCEPT !.last_timestamp = Some(ts)]

\* a_std < threshold, where a_std is 0.0 until the window holds
\* max(3, win_len / 2) values
WindowStdBelow(buf, win_len, thr) ==
    IF Len(buf) >= Max2(3, win_len \div 2) THEN StdBelow(buf, thr) ELSE 0 < thr

\* max - min > threshold once the buffer holds 3 values
HasPeak(buf, thr) ==
    IF Len(buf) >= 3 THEN SeqMax(buf) - SeqMin(buf) > thr ELSE FALSE

\* is_stationary_candidate, on the buffers after the sample was pushed
IsStationaryCandidate(accel_mag_buf, gyro_mag_buf, gravity_buf, user_acc_buf, win_len, user_acc_mag, gravity_x, gravity_y) ==
    /\ WindowStdBelow(accel_mag_buf, win_len, AccelStdThreshold)
    /\ WindowStdBelow(gyro_mag_buf, win_len, GyroStdThreshold)
    /\ ~HasPeak(gravity_buf, ThresholdPeaksGravity)
    /\ ~HasPeak(user_acc_buf, ThresholdPeaksUserAcc)
    /\ ~(user_acc_mag > UserAccThreshold)
    /\ ~(Abs(gravity_x) > UserGravityThresholdX)
    /\ ~(Abs(gravity_y) > UserGravityThresholdY)

\* a counter that steps down on a non-candidate
CountStationaryDown(stationary_windows, is_candidate) ==
    IF is_candidate THEN stationary_windows + 1 ELSE Max2(stationary_windows - 1, 0)

\* the stationary run-length counter
CountStationary(stationary_windows, is_candidate) ==
    IF is_candidate THEN stationary_windows + 1 ELSE 0

\* a flag that needs one more window
StationaryFlagLate(stationary_windows) ==
    stationary_windows > StationaryRequiredWindows

\* self.is_stationary
StationaryFlag(stationary_windows) ==
    stationary_windows >= StationaryRequiredWindows

\* gravity estimate: adapted when stationary, and when moving only if the
\* reading is near gravity magnitude and the angular rate is small
GravityUpdate(gravity, acc_unbiased, acc_mag, gyro_mag, is_stationary) ==
    IF is_stationary
       \/ (Abs(acc_mag - StdGravity) < GravityBand /\ gyro_mag < 5 * GyroStdThreshold)
    THEN Ema3(GravityAlphaPermille, 1000, gravity, Fine3(acc_unbiased))
    ELSE gravity

\* a gyro bias that is smoothed on every integrated sample
GyroBiasUpdateAlways(gyro_bias, raw_gyro, is_stationary) ==
    Ema3(SmoothAlphaPercent, 100, gyro_bias, raw_gyro)
\* gyro bias: exponential smoothing toward the raw reading while stationary
GyroBiasUpdate(gyro_bias, raw_gyro, is_stationary) ==
    IF is_stationary THEN Ema3(SmoothAlphaPercent, 100, gyro_bias, raw_gyro)
    ELSE gyro_bias

\* high-pass memory, updated on moving samples only
HpUpdate(hp_state, linear_acc, is_stationary) ==
    IF is_stationary THEN hp_state
    ELSE Ema3(HpAlphaPercent, 100, hp_state, linear_acc)

\* yaw-only rotation of the device x/y acceleration into the world frame,
\* followed by the componentwise deadzone
AccelWorld(accel_hp, heading) ==
    LET cos_h == Sin(heading + HalfTurn \div 2)
        sin_h == Sin(heading)
        ax_world == RDiv(accel_hp[1] * cos_h - accel_hp[2] * sin_h, TrigScale)
        ay_world == RDiv(accel_hp[1] * sin_h + accel_hp[2] * cos_h, TrigScale)
        dz(c) == IF Abs(c) < Deadzone THEN 0 ELSE c
    IN <<dz(ax_world), dz(ay_world)>>

\* the damping multiplier 1 - (1 - velocity_damping) * dt * 10, in percent
DampingPercent(dt) ==
    100 - ((100 - VelocityDampingPercent) * dt * 10) \div TicksPerSec

\* velocity of a moving sample: integrate, damp, clamp
VelocityMoving(velocity, accel_world_2d, dt) ==
    LET v1 == <<velocity[1] + accel_world_2d[1] * dt,
                velocity[2] + accel_world_2d[2] * dt>>
        v2 == <<RDiv(v1[1] * DampingPercent(dt), 100),
                RDiv(v1[2] * DampingPercent(dt), 100)>>
    IN ClampSpeed(v2, MaxSpeed)

\* a velocity step without the zero-velocity update
VelocityStepNoZupt(velocity, accel_world_2d, dt, is_stationary) ==
    VelocityMoving(velocity, accel_world_2d, dt)

\* ZUPT on a stationary sample, integration on a moving one
VelocityStep(velocity, accel_world_2d, dt, is_stationary) ==
    IF is_stationary THEN <<0, 0>>
    ELSE VelocityMoving(velocity, accel_world_2d, dt)

\* heading += gyro_z * dt, wrapped
HeadingGyro(heading, gyro_z, dt) == WrapAngle(heading + gyro_z * dt)

\* a fusion that blends also while stationary
HeadingMagBlend(heading, mag, is_stationary) ==
    IF ~IsNone(mag[1]) /\ ~IsNone(mag[2]) /\ ~IsNone(mag[3])
    THEN WrapAngle(RDiv((100 - MagAlphaPercent) * heading
                        + MagAlphaPercent * Atan2(Val(mag[2]), Val(mag[1])), 100))
    ELSE heading
\* a fusion that does not look at the third component
HeadingMagTwo(heading, mag, is_stationary) ==
    IF ~IsNone(mag[1]) /\ ~IsNone(mag[2])
    THEN LET mag_heading == Atan2(Val(mag[2]), Val(mag[1]))
         IN IF is_stationary THEN WrapAngle(mag_heading)
            ELSE WrapAngle(RDiv((100 - MagAlphaPercent) * heading
                                + MagAlphaPercent * mag_heading, 100))
    ELSE heading

\* magnetometer fusion: skipped unless all three components are present
HeadingMag(heading, mag, is_stationary) ==
    IF ~IsNone(mag[1]) /\ ~IsNone(mag[2]) /\ ~IsNone(mag[3])
    THEN LET mag_heading == Atan2(Val(mag[2]), Val(mag[1]))
         IN IF is_stationary THEN WrapAngle(mag_heading)
            ELSE WrapAngle(RDiv((100 - MagAlphaPercent) * heading
                                + MagAlphaPercent * mag_heading, 100))
    ELSE heading

\* a record of the last motion that the stationary branch leaves alone
LastMotionTimeWhenMoving(s, ts, is_stationary) ==
    IF is_stationary THEN s.last_motion_time ELSE Some(ts)
\* last_motion_time after the stationary / moving branch: both branches set it
\* to the sample's timestamp
LastMotionTime(s, ts, is_stationary) ==
    IF is_stationary THEN Some(ts) ELSE Some(ts)

\* forced stop after no_motion_timeout without motion
ForceStop(velocity, ts, last_motion_time) ==
    IF ts - last_motion_time > NoMotionTimeout THEN <<0, 0>> ELSE velocity

\* no cutoff
CutoffOff(velocity) == velocity
\* velocity cutoff
Cutoff(velocity) ==
    IF SqNorm2(velocity) < VelocityThreshold * VelocityThreshold THEN <<0, 0>>
    ELSE velocity

\* a position step that covers twice the distance
PositionStepDouble(position, velocity, dt) ==
    <<position[1] + 2 * velocity[1] * dt, position[2] + 2 * velocity[2] * dt>>
\* position += velocity * dt
PositionStep(position, velocity, dt) ==
    <<position[1] + velocity[1] * dt, position[2] + velocity[2] * dt>>

\* norm(a - b) < r
Within(a, b, r) ==
    /\ Abs(a[1] - b[1]) < r
    /\ Abs(a[2] - b[2]) < r
    /\ SqNorm2(<<a[1] - b[1], a[2] - b[2]>>) < r * r

\* a snap that does not wait for the estimator to be stationary
SnapMoving(position, origin, radius, is_stationary) ==
    IF ~IsNone(radius) /\ Within(position, origin, Val(radius))
    THEN origin ELSE position
\* snap to origin when stationary and close to it
Snap(position, origin, radius, is_stationary) ==
    IF is_stationary /\ ~IsNone(radius) /\ Within(position, origin, Val(radius))
    THEN origin ELSE position

\* update, up to the push into the rolling buffers: the unbiased readings,
\* their magnitudes, and the buffers after the push
Measure(s, acc, gyro) ==
    [ acc_unbiased |-> Sub3(acc, s.accel_bias),
      gyro_unbiased |-> Sub3(gyro, s.gyro_bias),
      acc_mag |-> Norm3(Sub3(acc, s.accel_bias)),
      gyro_mag |-> Norm3(Sub3(gyro, s.gyro_bias)),
      user_acc_mag |-> Norm3(Sub3(Sub3(acc, s.accel_bias), Coarse3(s.gravity))),
      gravity_mag |-> Norm3(Coarse3(s.gravity)) ]

\* the rolling buffers after the push
Buffers(s, m) ==
    [ accel_mag_buf |-> DequeAppend(s.accel_mag_buf, m.acc_mag, s.win_len),
      gyro_mag_buf |-> DequeAppend(s.gyro_mag_buf, m.gyro_mag, s.win_len),
      gravity_buf |-> DequeAppend(s.gravity_buf, m.gravity_mag, s.win_len),
      user_acc_buf |-> DequeAppend(s.user_acc_buf, m.user_acc_mag, s.win_len),
      gravity_x_buf |-> DequeAppend(s.gravity_x_buf, Abs(Coarse3(s.gravity)[1]), s.win_len),
      gravity_y_buf |-> DequeAppend(s.gravity_y_buf, Abs(Coarse3(s.gravity)[2]), s.win_len) ]

\* the stationary classification of the sample
Classify(s, m, b) ==
    LET is_candidate == IsStationaryCandidate(b.accel_mag_buf, b.gyro_mag_buf,
                                              b.gravity_buf, b.user_acc_buf, s.win_len,
                                              m.user_acc_mag, Coarse3(s.gravity)[1], Coarse3(s.gravity)[2])
        stationary_windows == CountStationary(s.stationary_windows, is_candidate)
    IN [ is_candidate |-> is_candidate,
         stationary_windows |-> stationary_windows,
         is_stationary |-> StationaryFlag(stationary_windows) ]

\* the estimates after the stationary / moving branch: gyro bias, gravity,
\* high-pass memory, and the world-frame acceleration of a moving sample
Estimate(s, m, gyro, is_stationary) ==
    LET gravity == GravityUpdate(s.gravity, m.acc_unbiased, m.acc_mag, m.gyro_mag,
                                 is_stationary)
        hp_state == HpUpdate(s.hp_state, Sub3(m.acc_unbiased, Coarse3(gravity)), is_stationary)
    IN [ gyro_bias |-> GyroBiasUpdate(s.gyro_bias, gyro, is_stationary),
         gravity |-> gravity,
         hp_state |-> hp_state,
         accel_world_2d |-> AccelWorld(Sub3(Sub3(m.acc_unbiased, Coarse3(gravity)), hp_state),
                                       s.heading) ]

\* velocity and position after the sample; the timeout check reads the
\* last_motion_time the stationary / moving branch has just written
Kinematics(s, accel_world_2d, ts, dt, is_stationary) ==
    LET velocity == Cutoff(ForceStop(VelocityStep(s.velocity, accel_world_2d, dt,
                                                  is_stationary), ts,
                                     Val(LastMotionTime(s, ts, is_stationary))))
        moved == PositionStep(s.position, velocity, dt)
    IN [ velocity |-> velocity,
         moved |-> moved,
         position |-> Snap(moved, s.origin, s.snap_to_origin_radius, is_stationary) ]

\* the history entry of the sample
Entry(ts, k, m, is_stationary, heading) ==
    [ t |-> ts, pos |-> k.position, vel |-> k.velocity, speed |-> Norm2(k.velocity),
      acc_mag |-> m.acc_mag, gyro_mag |-> m.gyro_mag,
      is_stationary |-> is_stationary, heading_deg |-> HeadingDeg(heading) ]

\* the state after an accepted sample
Integrated(s, ts, m, b, c, e, k, heading) ==
    [s EXCEPT !.accel_mag_buf = b.accel_mag_buf,
              !.gyro_mag_buf = b.gyro_mag_buf,
              !.gravity_buf = b.gravity_buf,
              !.user_acc_buf = b.user_acc_buf,
              !.gravity_x_buf = b.gravity_x_buf,
              !.gravity_y_buf = b.gravity_y_buf,
              !.stationary_windows = c.stationary_windows,
              !.is_stationary = c.is_stationary,
              !.gyro_bias = e.gyro_bias,
              !.gravity = e.gravity,
              !.last_motion_time = LastMotionTime(s, ts, c.is_stationary),
              !.hp_state = e.hp_state,
              !.velocity = k.velocity,
              !.heading = heading,
              !.position = k.position,
              !.history = Append(s.history, Entry(ts, k, m, c.is_stationary, heading)),
              !.last_timestamp = Some(ts)]

\* the accepted-dt part of update, from the velocity step on
IntegrateK(s, ts, mag, dt, m, b, c, e) ==
    Integrated(s, ts, m, b, c, e,
               Kinematics(s, e.accel_world_2d, ts, dt, c.is_stationary),
               HeadingMag(HeadingGyro(s.heading, m.gyro_unbiased[3], dt), mag,
                          c.is_stationary))

\* the accepted-dt part of update, from the stationary / moving branch on
IntegrateC(s, gyro, ts, mag, dt, m, b, c) ==
    IntegrateK(s, ts, mag, dt, m, b, c, Estimate(s, m, gyro, c.is_stationary))

\* the accepted-dt part of update, from the stationary classification on
IntegrateM(s, gyro, ts, mag, dt, m, b) ==
    IntegrateC(s, gyro, ts, mag, dt, m, b, Classify(s, m, b))

\* the accepted-dt part of update
Integrate(s, acc, gyro, ts, mag, dt) ==
    IntegrateM(s, gyro, ts, mag, dt, Measure(s, acc, gyro), Buffers(s, Measure(s, acc, gyro)))

\* the locals of update the properties refer to
IsCandidate(s, acc, gyro) ==
    Classify(s, Measure(s, acc, gyro), Buffers(s, Measure(s, acc, gyro))).is_candidate

\* update: the new state and the path taken
update(s, acc, gyro, ts, mag) ==
    IF IsNone(s.last_timestamp)
    THEN [ state |-> FirstSample(s, acc, ts), path |-> "first", dt |-> 0 ]
    ELSE IF BadDt(ts - Val(s.last_timestamp))
    THEN [ state |-> RejectSample(s, ts), path |-> "rejected",
           dt |-> ts - Val(s.last_timestamp) ]
    ELSE [ state |-> Integrate(s, acc, gyro, ts, mag, ts - Val(s.last_timestamp)),
           path |-> "integrated", dt |-> ts - Val(s.last_timestamp) ]

\* a reset that keeps the trail
resetKeepingHistory(s, pos, heading_rad) ==
    [Construct(pos, heading_rad, s.sample_hz) EXCEPT !.history = s.history]

\* reset: runs __init__ again, keeping the sample rate
reset(s, pos, heading_rad) == Construct(pos, heading_rad, s.sample_hz)

-----------------------------------------------------------------------------
(* AdvancedTrailTracker: the setters that write into the wrapped estimator *)

\* a facade that hands the yaw rate over as the rate about x
trackerUpdateRoll(s, acc, gyro_z, ts, mag) ==
    update(s, acc, <<gyro_z, 0, 0>>, ts, mag)
\* AdvancedTrailTracker.update: the estimator's update with gyro_x = gyro_y = 0
trackerUpdate(s, acc, gyro_z, ts, mag) ==
    update(s, acc, <<0, 0, gyro_z>>, ts, mag)

\* heading.setter
SetHeadingOf(s, value) == [s EXCEPT !.heading = value]
\* position.setter
SetPositionOf(s, value) == [s EXCEPT !.position = value]
\* AdvancedTrailTracker.reset: resets the estimator with the default
\* arguments, then writes its position and heading back through the setters
trackerReset(s) ==
    LET fresh == reset(s, <<0, 0>>, 0)
    IN SetHeadingOf(SetPositionOf(fresh, fresh.position), fresh.heading)

-----------------------------------------------------------------------------
(* Inputs *)

NoMag == <<None, None, None>>
Mag(x, y, z) == <<Some(x), Some(y), Some(z)>>

\* sensor samples: accelerometer, gyroscope, magnetometer
\* device flat and at rest
Still == [acc |-> <<0, 0, 981>>, gyro |-> <<0, 0, 0>>, mag |-> NoMag]
\* at rest, with a magnetometer reading pointing along +y
StillMag == [acc |-> <<0, 0, 981>>, gyro |-> <<0, 0, 0>>, mag |-> Mag(0, 30, 40)]
\* turning about the vertical axis at 900 deg/s
Turn == [acc |-> <<0, 0, 981>>, gyro |-> <<0, 0, 9000>>, mag |-> NoMag]
\* a gentle forward push of 1 m/s^2
Push == [acc |-> <<100, 0, 981>>, gyro |-> <<0, 0, 0>>, mag |-> NoMag]
\* a forward jolt of 70 m/s^2
Shock == [acc |-> <<7000, 0, 981>>, gyro |-> <<0, 0, 0>>, mag |-> NoMag]
\* a sideways jolt while turning, with a magnetometer reading pointing along -x
ShockMag == [acc |-> <<7000, 3500, 981>>, gyro |-> <<0, 0, 9000>>, mag |-> Mag(-30, 0, 40)]

\* turning, with a magnetometer reading pointing along +x
TurnMag == [acc |-> <<0, 0, 981>>, gyro |-> <<0, 0, 9000>>, mag |-> Mag(30, 0, 40)]


\* a stream: each sample repeats the last timestamp or follows it by 0.1 s
StreamTimes(s) ==
    IF IsNone(s.last_timestamp) THEN {0, 1}
    ELSE {Val(s.last_timestamp) + d : d \in {0, 1}}
\* a steady stream at 10 Hz
WalkTimes(s) ==
    IF IsNone(s.last_timestamp) THEN {0} ELSE {Val(s.last_timestamp) + 1}

\* a reading of gravity magnitude of a device at rest, slightly tilted
Tilted == [acc |-> <<50, 30, 979>>, gyro |-> <<0, 0, 0>>, mag |-> NoMag]

\* positions and headings a caller supplies
PosInputs == {<<0, 0>>, <<6000, 0>>}
HeadingInputs == {0, 22918}

-----------------------------------------------------------------------------
(* State machine *)

\* call: the last update call (the path it took, the inputs that path read,
\* the locals the properties refer to, and the sum of the dt of the samples
\* integrated so far); ret: the snapshot it returned
NoCall ==
    [ path |-> "none", acc |-> <<0, 0, 0>>, gyro |-> <<0, 0, 0>>,
      mag |-> NoMag, ts |-> 0, dt |-> 0, is_candidate |-> FALSE, elapsed |-> 0 ]

\* host: the server around the estimator.  The threads that reach the
\* estimator are the UDP listener, a handler of POST /imu and a handler of the
\* /navigation routes; pc is where each of them stands, lock the holder of
\* navigation_lock, session whether a navigation session is active.
\* stats holds the packet counters, recent_data the stored packets (a packet
\* is written as its number in the order of storing), stored the number of
\* packets stored so far, seen the value of total_packets a thread has read
\* for its increment, recent the answer of the last GET /recent made since a
\* packet was last stored.  mapping is the mapping session of the one session
\* id in use ("none" before /mapping/start), its fingerprint_count, where the
\* handler of POST /mapping/data stands, how the last such request ended, and
\* the fingerprint_count the last /mapping/stop returned.
Ingest == {"udp", "imu"}
Threads == Ingest \cup {"nav"}
HostIdle ==
    [ pc |-> [t \in Threads |-> "idle"], lock |-> "free", session |-> FALSE,
      stats |-> [total_packets |-> 0, udp_packets |-> 0, http_packets |-> 0],
      recent_data |-> <<>>, stored |-> 0, seen |-> [t \in Ingest |-> 0],
      recent |-> None,
      mapping |-> [ session |-> "none", fingerprint_count |-> 0, data |-> "idle",
                    answer |-> "none", stopped_with |-> None ] ]

\* magnetic_model: a MagneticFieldModel: its cache in insertion order, each
\* entry a key and the field stored under it (a field is written as the
\* latitude it was computed for), the number of insertions so far, and the last
\* get_magnetic_field call: its latitude, its outcome and what it returned.
\* fingerprint_storage: a FingerprintStorage: its fingerprints, the coordinate
\* rows of its spatial index, and the last add_fingerprint call: the
\* fingerprint offered and what the call returned.
\* mm: a MapManager (its maps and its active map) and the conversion asked of
\* it since it last changed: the world point, the pixel it was converted to
\* and the world point that pixel was converted back to; of a
\* set_active_map or delete_map call that was the last thing done: its name,
\* its argument, what it returned and the active map it found
NoMaps ==
    [ maps |-> [id \in {} |-> None], active_map_id |-> None, asked |-> FALSE, map_id |-> None,
      world |-> <<0, 0>>, pixel |-> None, back |-> None,
      op |-> "none", arg |-> None, returned |-> None, active_before |-> None ]

\* an estimator constructed with the default position and heading
Init ==
    /\ imu = Construct(<<0, 0>>, 0, SampleHz)
    /\ call = NoCall
    /\ ret = None
    /\ host = HostIdle
    /\ mm = NoMaps
    /\ magnetic_model = [_cache |-> <<>>, inserted |-> 0, latitude |-> None, outcome |-> "none",
                         returned |-> None]
    /\ fingerprint_storage = [fingerprints |-> <<>>, coordinates |-> None, offered |-> None,
                              returned |-> None]

\* what the properties need of an update call
CallOf(s, x, ts, r) ==
    [ path |-> r.path,
      acc |-> IF r.path = "rejected" THEN <<0, 0, 0>> ELSE x.acc,
      gyro |-> IF r.path = "integrated" THEN x.gyro ELSE <<0, 0, 0>>,
      mag |-> IF r.path = "integrated" THEN x.mag ELSE NoMag,
      ts |-> ts,
      dt |-> r.dt,
      is_candidate |-> IF r.path = "integrated" THEN IsCandidate(s, x.acc, x.gyro)
                       ELSE FALSE,
      elapsed |-> IF r.path = "integrated" THEN call.elapsed + r.dt ELSE call.elapsed ]

\* IMUDeadReckoningFixed.update; at most cap samples are integrated
Update(x, ts, cap) ==
    LET r == update(imu, x.acc, x.gyro, ts, x.mag)
    IN /\ r.path = "integrated" => Len(imu.history) < cap
       /\ imu' = r.state
       /\ call' = CallOf(imu, x, ts, r)
       /\ ret' = Some(GetState(r.state))
       /\ UNCHANGED <<host, mm, magnetic_model, fingerprint_storage>>

\* IMUDeadReckoningFixed.reset
Reset(pos, heading_rad) ==
    /\ imu' = reset(imu, pos, heading_rad)
    /\ call' = NoCall
    /\ ret' = None
    /\ UNCHANGED <<host, mm, magnetic_model, fingerprint_storage>>

\* AdvancedTrailTracker.heading = value
SetHeading(value) ==
    /\ imu' = SetHeadingOf(imu, value)
    /\ call' = NoCall
    /\ ret' = None
    /\ UNCHANGED <<host, mm, magnetic_model, fingerprint_storage>>

\* AdvancedTrailTracker.position = value
SetPosition(value) ==
    /\ imu' = SetPositionOf(imu, value)
    /\ call' = NoCall
    /\ ret' = None
    /\ UNCHANGED <<host, mm, magnetic_model, fingerprint_storage>>

\* AdvancedTrailTracker.reset
TrackerReset ==
    /\ imu' = trackerReset(imu)
    /\ call' = NoCall
    /\ ret' = None
    /\ UNCHANGED <<host, mm, magnetic_model, fingerprint_storage>>

\* the estimator fed a stream of samples, with resets
Next ==
    \/ \E x \in {Still, StillMag, Turn, Shock, ShockMag}, ts \in StreamTimes(imu) : Update(x, ts, MaxSamples)
    \/ \E p \in PosInputs, h \in HeadingInputs : Reset(p, h)

Spec == Init /\ [][Next]_vars

\* the estimator fed samples with arbitrary timestamps
NextTimed ==
    \/ \E x \in {Still, Turn, Shock}, ts \in {0, 4, 15, 16} : Update(x, ts, MaxTimed)
    \/ \E p \in PosInputs, h \in HeadingInputs : Reset(p, h)

SpecTimed == Init /\ [][NextTimed]_vars

\* a walk: a steady 10 Hz stream, long enough for a jolt to leave the windows
NextWalk ==
    \/ \E x \in {Still, Push, Shock}, ts \in WalkTimes(imu) : Update(x, ts, MaxWalk)
    \/ \E p \in PosInputs, h \in HeadingInputs : Reset(p, h)

SpecWalk == Init /\ [][NextWalk]_vars

\* the estimator wrapped in an AdvancedTrailTracker, whose setters write into it
NextTracker ==
    \/ \E x \in {Still, Turn}, ts \in StreamTimes(imu) : Update(x, ts, MaxTracked)
    \/ \E p \in PosInputs, h \in HeadingInputs : Reset(p, h)
    \/ \E h \in HeadingInputs : SetHeading(h)
    \/ \E p \in PosInputs : SetPosition(p)
    \/ TrackerReset

SpecTracker == Init /\ [][NextTracker]_vars

\* a stream that repeats the reading of its first sample, with accepted steps
NextConst ==
    \/ \E x \in {Still, Tilted,
                   [acc |-> <<0, 80, 978>>, gyro |-> <<0, 0, 0>>, mag |-> NoMag],
                   [acc |-> <<981, 0, 0>>, gyro |-> <<0, 0, 0>>, mag |-> NoMag]}, ts \in (IF IsNone(imu.last_timestamp) THEN {0}
                   ELSE {Val(imu.last_timestamp) + d : d \in {1, 4, TicksPerSec}}) :
          /\ call.path = "none" \/ x.acc = call.acc
          /\ Update(x, ts, MaxConst)
    \/ \E p \in PosInputs, h \in HeadingInputs : Reset(p, h)

SpecConst == Init /\ [][NextConst]_vars

\* the rotation test: gyro_z = 0.785 rad/s (45.0 deg/s) with the accelerometer
\* reading gravity only, at 10 Hz, for 2.0 s
Rotate == [acc |-> <<0, 0, 981>>, gyro |-> <<0, 0, 450>>, mag |-> NoMag]
\* in a steady 10 Hz stream whose first timestamp is 0 or 0.1 s
NextTurn ==
    \/ \E ts \in (IF IsNone(imu.last_timestamp) THEN {0, 1} ELSE {Val(imu.last_timestamp) + 1}) :
          Update(Rotate, ts, MaxTurn)
    \/ \E p \in PosInputs, h \in HeadingInputs : Reset(p, h)

SpecTurn == Init /\ [][NextTurn]_vars

\* a stream with pauses: steps of 0.1 s and 1.0 s, and gaps of 1.6 s that make
\* the next sample a rejected one
NextIdle ==
    \/ \E x \in {Still, Push},
           ts \in (IF IsNone(imu.last_timestamp) THEN {0}
                   ELSE {t \in {Val(imu.last_timestamp) + d : d \in {1, TicksPerSec, 16}} :
                            t <= MaxIdleTime}) :
          Update(x, ts, MaxIdle)
    \/ \E p \in PosInputs, h \in HeadingInputs : Reset(p, h)

SpecIdle == Init /\ [][NextIdle]_vars

-----------------------------------------------------------------------------
(* server.py: the estimator shared by the threads of the server *)

SetPc(t, label) == [host.pc EXCEPT ![t] = label]
\* the threads that are executing a method of the estimator
InEstimator(h) ==
    {t \in Threads : h.pc[t] \in {"update", "reset_start", "get_state", "reset"}}

\* process_sensor_data, `with navigation_lock:` entered
IngestAcquire(t) ==
    /\ host.pc[t] = "idle"
    /\ host.lock = "free"
    /\ host' = [host EXCEPT !.pc = SetPc(t, "locked"), !.lock = t]
    /\ UNCHANGED <<imu, call, ret>>
    /\ UNCHANGED <<mm, magnetic_model, fingerprint_storage>>

\* has_active_session is read and the lock is released on leaving the block;
\* without an active session the call returns
IngestCheck(t) ==
    /\ host.pc[t] = "locked"
    /\ host' = [host EXCEPT !.pc = SetPc(t, IF host.session THEN "checked" ELSE "idle"),
                            !.lock = "free"]
    /\ UNCHANGED <<imu, call, ret>>
    /\ UNCHANGED <<mm, magnetic_model, fingerprint_storage>>

\* dead_reckoning.update is entered
IngestUpdateBegin(t) ==
    /\ host.pc[t] = "checked"
    /\ host' = [host EXCEPT !.pc = SetPc(t, "update")]
    /\ UNCHANGED <<imu, call, ret>>
    /\ UNCHANGED <<mm, magnetic_model, fingerprint_storage>>

\* dead_reckoning.update returns
IngestUpdateEnd(t, x, ts) ==
    LET r == update(imu, x.acc, x.gyro, ts, x.mag)
    IN /\ host.pc[t] = "update"
       /\ ts <= MaxServerTime
       /\ imu' = r.state
       /\ call' = CallOf(imu, x, ts, r)
       /\ ret' = Some(GetState(r.state))
       /\ host' = [host EXCEPT !.pc = SetPc(t, "idle")]
       /\ UNCHANGED <<mm, magnetic_model, fingerprint_storage>>

\* start_navigation: dead_reckoning.reset is entered
StartNavigationBegin ==
    /\ host.pc["nav"] = "idle"
    /\ host' = [host EXCEPT !.pc = SetPc("nav", "reset_start")]
    /\ UNCHANGED <<imu, call, ret>>
    /\ UNCHANGED <<mm, magnetic_model, fingerprint_storage>>

\* start_navigation: dead_reckoning.reset returns
StartNavigationReset(pos, heading_rad) ==
    /\ host.pc["nav"] = "reset_start"
    /\ imu' = reset(imu, pos, heading_rad)
    /\ call' = NoCall
    /\ ret' = None
    /\ host' = [host EXCEPT !.pc = SetPc("nav", "register")]
    /\ UNCHANGED <<mm, magnetic_model, fingerprint_storage>>

\* start_navigation, `with navigation_lock:` entered
StartNavigationAcquire ==
    /\ host.pc["nav"] = "register"
    /\ host.lock = "free"
    /\ host' = [host EXCEPT !.pc = SetPc("nav", "registering"), !.lock = "nav"]
    /\ UNCHANGED <<imu, call, ret>>
    /\ UNCHANGED <<mm, magnetic_model, fingerprint_storage>>

\* start_navigation: the session is stored as active and the lock released
StartNavigationRegister ==
    /\ host.pc["nav"] = "registering"
    /\ host' = [host EXCEPT !.pc = SetPc("nav", "idle"), !.lock = "free", !.session = TRUE]
    /\ UNCHANGED <<imu, call, ret>>
    /\ UNCHANGED <<mm, magnetic_model, fingerprint_storage>>

\* stop_navigation, `with navigation_lock:` entered
StopNavigationAcquire ==
    /\ host.pc["nav"] = "idle"
    /\ host.session
    /\ host.lock = "free"
    /\ host' = [host EXCEPT !.pc = SetPc("nav", "stopping"), !.lock = "nav"]
    /\ UNCHANGED <<imu, call, ret>>
    /\ UNCHANGED <<mm, magnetic_model, fingerprint_storage>>

\* stop_navigation: the session is marked inactive and the lock released
StopNavigationMark ==
    /\ host.pc["nav"] = "stopping"
    /\ host' = [host EXCEPT !.pc = SetPc("nav", "idle"), !.lock = "free", !.session = FALSE]
    /\ UNCHANGED <<imu, call, ret>>
    /\ UNCHANGED <<mm, magnetic_model, fingerprint_storage>>

\* get_current_position: dead_reckoning.get_state is entered
GetPositionBegin ==
    /\ host.pc["nav"] = "idle"
    /\ host' = [host EXCEPT !.pc = SetPc("nav", "get_state")]
    /\ UNCHANGED <<imu, call, ret>>
    /\ UNCHANGED <<mm, magnetic_model, fingerprint_storage>>

\* get_current_position: dead_reckoning.get_state returns
GetPositionEnd ==
    /\ host.pc["nav"] = "get_state"
    /\ ret' = Some(GetState(imu))
    /\ host' = [host EXCEPT !.pc = SetPc("nav", "idle")]
    /\ UNCHANGED <<imu, call>>
    /\ UNCHANGED <<mm, magnetic_model, fingerprint_storage>>

\* reset_navigation: dead_reckoning.reset is entered
ResetNavigationBegin ==
    /\ host.pc["nav"] = "idle"
    /\ host' = [host EXCEPT !.pc = SetPc("nav", "reset")]
    /\ UNCHANGED <<imu, call, ret>>
    /\ UNCHANGED <<mm, magnetic_model, fingerprint_storage>>

\* reset_navigation: dead_reckoning.reset returns
ResetNavigationEnd(pos, heading_rad) ==
    /\ host.pc["nav"] = "reset"
    /\ imu' = reset(imu, pos, heading_rad)
    /\ call' = NoCall
    /\ ret' = None
    /\ host' = [host EXCEPT !.pc = SetPc("nav", "idle")]
    /\ UNCHANGED <<mm, magnetic_model, fingerprint_storage>>

\* the UDP listener thread and the threaded HTTP server running together
NextServer ==
    \/ \E t \in Ingest : IngestAcquire(t)
    \/ \E t \in Ingest : IngestCheck(t)
    \/ \E t \in Ingest : IngestUpdateBegin(t)
    \/ \E t \in Ingest, x \in {Still, Turn}, ts \in StreamTimes(imu) : IngestUpdateEnd(t, x, ts)
    \/ StartNavigationBegin
    \/ \E p \in PosInputs, h \in HeadingInputs : StartNavigationReset(p, h)
    \/ StartNavigationAcquire
    \/ StartNavigationRegister
    \/ StopNavigationAcquire
    \/ StopNavigationMark
    \/ GetPositionBegin
    \/ GetPositionEnd
    \/ ResetNavigationBegin
    \/ \E p \in PosInputs, h \in HeadingInputs : ResetNavigationEnd(p, h)

SpecServer == Init /\ [][NextServer]_vars

-----------------------------------------------------------------------------
(* server.py: process_sensor_data up to the storing of the packet, and
   GET /recent.  No navigation session is active, so the rest of
   process_sensor_data changes nothing. *)

\* `stats['total_packets'] += 1` written back from the value `total` that was
\* read, and the counter of the source: 'UDP' for the listener thread, 'HTTP'
\* for a handler of POST /imu
Counted(h, t, total) ==
    [h EXCEPT !.stats = [@ EXCEPT !.total_packets = total + 1,
                                  ![IF t = "udp" THEN "udp_packets" ELSE "http_packets"] = @ + 1]]

\* a store that never drops a packet
StoredKeepingOldest(h) ==
    [h EXCEPT !.recent_data = Append(@, h.stored + 1), !.stored = @ + 1]
\* `with recent_data_lock:` append, and pop(0) when more than 100 are held
Stored(h) ==
    LET appended == Append(h.recent_data, h.stored + 1)
    IN [h EXCEPT !.recent_data = IF Len(appended) > RecentCapacity THEN Tail(appended)
                                 ELSE appended,
                 !.stored = @ + 1]

\* process_sensor_data(data, source) run from its start to its end
ProcessSensorData(t) ==
    /\ host' = [Stored(Counted(host, t, host.stats.total_packets)) EXCEPT !.recent = None]
    /\ UNCHANGED <<imu, call, ret>>
    /\ UNCHANGED <<mm, magnetic_model, fingerprint_storage>>

\* get_recent_data: recent_data[-limit:] when recent_data is not empty, and
\* count = min(len(recent_data), limit).  A slice from -limit starts at
\* len - limit, at 0 when that is negative, and at 0 when limit is 0 (-0 is 0);
\* for a negative limit it starts at -limit, at most at len.
GetRecentData(limit) ==
    LET data_length == Len(host.recent_data)
        start == IF limit > 0 THEN Max2(data_length - limit, 0)
                 ELSE -Max2(-data_length, limit)
        data_to_return == IF host.recent_data # <<>>
                          THEN SubSeq(host.recent_data, start + 1, data_length)
                          ELSE <<>>
    IN /\ host' = [host EXCEPT !.recent = Some([ limit |-> limit,
                                                 count |-> -Max2(-data_length, -limit),
                                                 data |-> data_to_return ])]
       /\ UNCHANGED <<imu, call, ret>>
       /\ UNCHANGED <<mm, magnetic_model, fingerprint_storage>>

\* packets from both sources, until the buffer has been full for a while, and
\* requests for none, two and more packets than can be held
NextPackets ==
    \/ \E t \in Ingest :
          /\ host.stored < RecentCapacity + MaxOverflow
          /\ ProcessSensorData(t)
    \/ \E limit \in {0, 2, RecentCapacity + 1} : GetRecentData(limit)

SpecPackets == Init /\ [][NextPackets]_vars

\* process_sensor_data run by the UDP listener thread and by a handler thread
\* of the HTTP server at once.  `stats['total_packets'] += 1` is a read of the
\* counter followed by a write of the value read plus one, with no lock held;
\* each source counter is written by one thread only here.
\* the read of total_packets
PacketRead(t) ==
    /\ host.pc[t] = "idle"
    /\ host.stored + Cardinality({u \in Ingest : host.pc[u] # "idle"}) < MaxPackets
    /\ host' = [host EXCEPT !.pc = SetPc(t, "counting"),
                            !.seen = [@ EXCEPT ![t] = host.stats.total_packets]]
    /\ UNCHANGED <<imu, call, ret>>
    /\ UNCHANGED <<mm, magnetic_model, fingerprint_storage>>

\* the write of total_packets, and the counter of the source
PacketCount(t) ==
    /\ host.pc[t] = "counting"
    /\ host' = [Counted(host, t, host.seen[t]) EXCEPT !.pc = SetPc(t, "storing")]
    /\ UNCHANGED <<imu, call, ret>>
    /\ UNCHANGED <<mm, magnetic_model, fingerprint_storage>>

\* the packet is stored under recent_data_lock and the call returns
PacketStore(t) ==
    /\ host.pc[t] = "storing"
    /\ host' = [Stored(host) EXCEPT !.pc = SetPc(t, "idle")]
    /\ UNCHANGED <<imu, call, ret>>
    /\ UNCHANGED <<mm, magnetic_model, fingerprint_storage>>

NextCounters ==
    \E t \in Ingest : PacketRead(t) \/ PacketCount(t) \/ PacketStore(t)

SpecCounters == Init /\ [][NextCounters]_vars

-----------------------------------------------------------------------------
(* map_manager.py: MapManager.  World coordinates are in 0.001 m, the scale
   in 0.001 m per pixel, pixel coordinates in 0.001 pixel, rotation_degrees in
   whole degrees; sines and cosines are in 1/MapTrigScale. *)

MapTrigScale == 10000
\* math.sin and math.cos of x in 1/MapTrigScale rad, 0 <= x <= pi/2: the series
\* x (1 - x2/6 (1 - x2/20 (1 - x2/42))) and
\* 1 - x2/2 (1 - x2/12 (1 - x2/30 (1 - x2/56))), x2 the square of the angle
SinSeries(x) ==
    LET x2 == RDiv(x * x, MapTrigScale)
        step(divisor, inner) == MapTrigScale - RDiv(x2 * inner, divisor * MapTrigScale)
    IN RDiv(x * step(6, step(20, step(42, MapTrigScale))), MapTrigScale)
CosSeries(x) ==
    LET x2 == RDiv(x * x, MapTrigScale)
        step(divisor, inner) == MapTrigScale - RDiv(x2 * inner, divisor * MapTrigScale)
    IN step(2, step(12, step(30, step(56, MapTrigScale))))
\* math.sin(math.radians(deg)) and math.cos(math.radians(deg)), by the
\* symmetries of the circle and the series on 0..90 degrees
MapSin(deg) ==
    LET d == deg % 360
        radians(q) == RDiv(q * 31416, 180)
    IN IF d <= 90 THEN SinSeries(radians(d))
       ELSE IF d <= 180 THEN SinSeries(radians(180 - d))
       ELSE IF d <= 270 THEN -SinSeries(radians(d - 180))
       ELSE -SinSeries(radians(360 - d))
MapCos(deg) ==
    LET d == deg % 360
        radians(q) == RDiv(q * 31416, 180)
    IN IF d <= 90 THEN CosSeries(radians(d))
       ELSE IF d <= 180 THEN -CosSeries(radians(180 - d))
       ELSE IF d <= 270 THEN -CosSeries(radians(d - 180))
       ELSE CosSeries(radians(360 - d))

\* (dx, dy) turned by deg degrees
Rotate2(dx, dy, deg) ==
    <<RDiv(dx * MapCos(deg) - dy * MapSin(deg), MapTrigScale),
      RDiv(dx * MapSin(deg) + dy * MapCos(deg), MapTrigScale)>>

\* `map_id in self.maps`, with `map_id = self.active_map_id` when no map is named
KnownMap(m, map_id) ==
    LET id == IF IsNone(map_id) THEN m.active_map_id ELSE map_id
    IN ~IsNone(id) /\ Val(id) \in DOMAIN m.maps
\* `self.maps[map_id]`
MapData(m, map_id) ==
    LET id == IF IsNone(map_id) THEN m.active_map_id ELSE map_id
    IN m.maps[Val(id)]

\* MapManager.world_to_pixel: the offset from the map origin, turned by
\* -rotation_degrees, divided by the scale, y flipped
world_to_pixel(m, world_x, world_y, map_id) ==
    IF ~KnownMap(m, map_id) THEN None
    ELSE LET map_data == MapData(m, map_id)
             dx == world_x - map_data.origin_x
             dy == world_y - map_data.origin_y
             offset == IF map_data.rotation_degrees # 0
                       THEN Rotate2(dx, dy, -map_data.rotation_degrees)
                       ELSE <<dx, dy>>
         IN Some(<<RDiv(offset[1] * 1000, map_data.scale_meters_per_pixel),
                   RDiv(-offset[2] * 1000, map_data.scale_meters_per_pixel)>>)

\* a way back that turns the offset the same way as the way there
PixelOffsetSameTurn(offset, map_data) ==
    IF map_data.rotation_degrees # 0
    THEN Rotate2(offset[1], offset[2], -map_data.rotation_degrees)
    ELSE offset
\* the offset turned by +rotation_degrees
PixelOffset(offset, map_data) ==
    IF map_data.rotation_degrees # 0
    THEN Rotate2(offset[1], offset[2], map_data.rotation_degrees)
    ELSE offset

\* MapManager.pixel_to_world: the pixel times the scale, y flipped, turned,
\* moved to the map origin
pixel_to_world(m, pixel_x, pixel_y, map_id) ==
    IF ~KnownMap(m, map_id) THEN None
    ELSE LET map_data == MapData(m, map_id)
             scaled == <<RDiv(pixel_x * map_data.scale_meters_per_pixel, 1000),
                         RDiv(-pixel_y * map_data.scale_meters_per_pixel, 1000)>>
             offset == PixelOffset(scaled, map_data)
         IN Some(<<map_data.origin_x + offset[1], map_data.origin_y + offset[2]>>)

\* the manager m with no conversion remembered
Forget(m) == [NoMaps EXCEPT !.maps = m.maps, !.active_map_id = m.active_map_id]

\* upload_map with calibration parameters / update_map_calibration
Calibrate(id, scale, origin, rotation) ==
    /\ mm' = [Forget(mm) EXCEPT !.maps = [k \in DOMAIN mm.maps \cup {id} |->
                     IF k = id THEN [ scale_meters_per_pixel |-> scale,
                                      origin_x |-> origin[1], origin_y |-> origin[2],
                                      rotation_degrees |-> rotation ]
                     ELSE mm.maps[k]]]
    /\ UNCHANGED <<imu, call, ret, host, magnetic_model, fingerprint_storage>>

\* set_active_map
SetActiveMap(id) ==
    /\ mm' = IF id \notin DOMAIN mm.maps
             THEN [Forget(mm) EXCEPT !.op = "set_active_map", !.arg = Some(id),
                                     !.returned = Some(FALSE),
                                     !.active_before = mm.active_map_id]
             ELSE [Forget(mm) EXCEPT !.active_map_id = Some(id),
                                     !.op = "set_active_map", !.arg = Some(id),
                                     !.returned = Some(TRUE),
                                     !.active_before = mm.active_map_id]
    /\ UNCHANGED <<imu, call, ret, host, magnetic_model, fingerprint_storage>>

\* a delete_map that leaves the active map as it is
DeleteMapKeepingActive(id) ==
    /\ mm' = IF id \notin DOMAIN mm.maps
             THEN [Forget(mm) EXCEPT !.op = "delete_map", !.arg = Some(id),
                                     !.returned = Some(FALSE),
                                     !.active_before = mm.active_map_id]
             ELSE [Forget(mm) EXCEPT !.maps = [k \in DOMAIN mm.maps \ {id} |-> mm.maps[k]],
                                     !.op = "delete_map", !.arg = Some(id),
                                     !.returned = Some(TRUE),
                                     !.active_before = mm.active_map_id]
    /\ UNCHANGED <<imu, call, ret, host, magnetic_model, fingerprint_storage>>
\* delete_map: False for an unknown id; otherwise the image file is removed,
\* the map is dropped and the active map is cleared if it was the one deleted,
\* or removing the file raises and the call returns False with the map kept
DeleteMap(id) ==
    /\ \/ mm' = IF id \notin DOMAIN mm.maps
                THEN [Forget(mm) EXCEPT !.op = "delete_map", !.arg = Some(id),
                                        !.returned = Some(FALSE),
                                        !.active_before = mm.active_map_id]
                ELSE [Forget(mm) EXCEPT !.maps = [k \in DOMAIN mm.maps \ {id} |-> mm.maps[k]],
                                        !.active_map_id = IF mm.active_map_id = Some(id) THEN None
                                                          ELSE mm.active_map_id,
                                        !.op = "delete_map", !.arg = Some(id),
                                        !.returned = Some(TRUE),
                                        !.active_before = mm.active_map_id]
       \/ /\ id \in DOMAIN mm.maps
          /\ mm' = [Forget(mm) EXCEPT !.op = "delete_map", !.arg = Some(id),
                                      !.returned = Some(FALSE),
                                      !.active_before = mm.active_map_id]
    /\ UNCHANGED <<imu, call, ret, host, magnetic_model, fingerprint_storage>>

\* world_to_pixel of a point, and pixel_to_world of the pixel it gave (of
\* pixel (0, 0) when it gave none)
Convert(world, map_id) ==
    LET pixel == world_to_pixel(mm, world[1], world[2], map_id)
        asked == IF IsNone(pixel) THEN <<0, 0>> ELSE Val(pixel)
    IN /\ mm' = [Forget(mm) EXCEPT !.asked = TRUE, !.map_id = map_id, !.world = world,
                           !.pixel = pixel,
                           !.back = pixel_to_world(mm, asked[1], asked[2], map_id)]
       /\ UNCHANGED <<imu, call, ret, host, magnetic_model, fingerprint_storage>>

\* calibrations of the map "plan": scales of 0.1 m, 3 mm and -0.25 m per
\* pixel, two origins, rotations by 0, 30, 90, -45 and 200 degrees; conversions
\* of two points on the active map, on "plan" and on the unknown map "site"
NextMap ==
    \/ \E scale \in {100, 3, -250}, origin \in {<<0, 0>>, <<1500, -2500>>}, rotation \in {0, 30, 90, -45, 200} :
          Calibrate("plan", scale, origin, rotation)
    \/ SetActiveMap("plan")
    \/ \E world \in {<<5000, 3000>>, <<-7001, 123>>}, map_id \in {None, Some("plan"), Some("site")} :
          Convert(world, map_id)

SpecMap == Init /\ [][NextMap]_vars

\* two maps "plan" and "annex" uploaded, recalibrated, activated and deleted,
\* and calls that name the map "site", which is never uploaded
NextAtlas ==
    \/ \E id \in {"plan", "annex"}, rotation \in {0, 30, 90} : Calibrate(id, 100, <<0, 0>>, rotation)
    \/ \E id \in {"plan", "annex", "site"} : SetActiveMap(id)
    \/ \E id \in {"plan", "annex", "site"} : DeleteMap(id)

SpecAtlas == Init /\ [][NextAtlas]_vars

-----------------------------------------------------------------------------
(* magnetic_field_model.py: MagneticFieldModel.get_magnetic_field.  Latitudes
   are in 0.00001 degree; longitude, altitude and date are the same in every
   call. *)

\* round(latitude, 4), for a latitude that is not halfway between two keys
CacheKey(latitude) == RDiv(latitude, 10)

\* a get_magnetic_field that makes room by dropping the newest entry
GetMagneticFieldDropNewest(latitude) ==
    LET cache == magnetic_model._cache
        hits == {i \in 1..Len(cache) : cache[i].key = CacheKey(latitude)}
        room == IF Len(cache) >= CacheMaxSize THEN SubSeq(cache, 1, Len(cache) - 1) ELSE cache
    IN /\ magnetic_model' =
              IF latitude < -9000000 \/ latitude > 9000000
              THEN [magnetic_model EXCEPT !.latitude = Some(latitude), !.outcome = "ValueError",
                                          !.returned = None]
              ELSE IF hits # {}
              THEN [magnetic_model EXCEPT !.latitude = Some(latitude), !.outcome = "hit",
                                          !.returned = Some(cache[CHOOSE i \in hits : TRUE].value)]
              ELSE [magnetic_model EXCEPT
                       !._cache = Append(room, [key |-> CacheKey(latitude), value |-> latitude]),
                       !.inserted = @ + 1, !.latitude = Some(latitude), !.outcome = "miss",
                       !.returned = Some(latitude)]
       /\ UNCHANGED <<imu, call, ret, host, mm, fingerprint_storage>>
\* get_magnetic_field: ValueError for a latitude out of range; the cached
\* field when the key is cached; otherwise the field is computed, the oldest
\* entry is dropped when the cache is full, and the field is stored under the
\* key and returned, or the computation fails, RuntimeError is raised and
\* nothing is stored
GetMagneticField(latitude) ==
    LET cache == magnetic_model._cache
        hits == {i \in 1..Len(cache) : cache[i].key = CacheKey(latitude)}
        room == IF Len(cache) >= CacheMaxSize THEN Tail(cache) ELSE cache
    IN /\ \/ magnetic_model' =
                 IF latitude < -9000000 \/ latitude > 9000000
                 THEN [magnetic_model EXCEPT !.latitude = Some(latitude), !.outcome = "ValueError",
                                             !.returned = None]
                 ELSE IF hits # {}
                 THEN [magnetic_model EXCEPT !.latitude = Some(latitude), !.outcome = "hit",
                                             !.returned = Some(cache[CHOOSE i \in hits : TRUE].value)]
                 ELSE [magnetic_model EXCEPT
                          !._cache = Append(room, [key |-> CacheKey(latitude), value |-> latitude]),
                          !.inserted = @ + 1, !.latitude = Some(latitude), !.outcome = "miss",
                          !.returned = Some(latitude)]
          \/ /\ latitude >= -9000000 /\ latitude <= 9000000 /\ hits = {}
             /\ magnetic_model' = [magnetic_model EXCEPT !.latitude = Some(latitude),
                                                         !.outcome = "RuntimeError",
                                                         !.returned = None]
       /\ UNCHANGED <<imu, call, ret, host, mm, fingerprint_storage>>

\* a walk north in steps of 0.0001 degree: each call asks for the next
\* position not asked for yet, for the oldest or the newest position cached,
\* for the first position of the walk, or for 91 degrees north; the positions
\* are asked for 0.00003 degree north of the key, the first MaxVaried
\* positions, the oldest and the newest also 0.00002 degree south of it
NextCache ==
    \/ \E d \in (IF magnetic_model.inserted < MaxVaried THEN {-2, 3} ELSE {3}) :
          /\ magnetic_model.inserted < CacheMaxSize + MaxOverflow
          /\ GetMagneticField(10 * (5 + magnetic_model.inserted) + d)
    \/ \E i \in {1, Len(magnetic_model._cache)} \cap DOMAIN magnetic_model._cache, d \in {-2, 3} :
          GetMagneticField(10 * magnetic_model._cache[i].key + d)
    \/ /\ magnetic_model.inserted < CacheMaxSize + MaxOverflow
       /\ GetMagneticField(53)
    \/ GetMagneticField(9100000)

SpecCache == Init /\ [][NextCache]_vars

-----------------------------------------------------------------------------
(* fingerprint_storage.py: FingerprintStorage.add_fingerprint.  Latitude and
   longitude are in degrees, the altitude in metres, the magnetic field in
   100 nT, the quality score in percent. *)

\* a validation that accepts any field strength
ValidateFingerprintAnyField(fingerprint) ==
    /\ -90 <= fingerprint.latitude /\ fingerprint.latitude <= 90
    /\ -180 <= fingerprint.longitude /\ fingerprint.longitude <= 180
    /\ -1000 <= fingerprint.altitude /\ fingerprint.altitude <= 100000
\* _validate_fingerprint; mag_total = sqrt(mag_x^2 + mag_y^2 + mag_z^2) is
\* compared through its square
ValidateFingerprint(fingerprint) ==
    LET mag_total_sq == fingerprint.mag[1] * fingerprint.mag[1]
                        + fingerprint.mag[2] * fingerprint.mag[2]
                        + fingerprint.mag[3] * fingerprint.mag[3]
    IN /\ -90 <= fingerprint.latitude /\ fingerprint.latitude <= 90
       /\ -180 <= fingerprint.longitude /\ fingerprint.longitude <= 180
       /\ -1000 <= fingerprint.altitude /\ fingerprint.altitude <= 100000
       /\ 100 * 100 <= mag_total_sq /\ mag_total_sq <= 1000 * 1000

\* add_fingerprint: False for a fingerprint that fails validation; otherwise
\* the fingerprint gets its quality score (computed against the external
\* magnetic model: any of the scores _calculate_quality_score can give), is
\* appended, and the spatial index is rebuilt from the stored fingerprints
AddFingerprint(fingerprint, quality_score) ==
    LET fingerprints == Append(fingerprint_storage.fingerprints,
                               [fingerprint EXCEPT !.quality_score = quality_score])
    IN /\ fingerprint_storage' =
              IF ~ValidateFingerprint(fingerprint)
              THEN [fingerprint_storage EXCEPT !.offered = Some(fingerprint),
                                               !.returned = Some(FALSE)]
              ELSE [ fingerprints |-> fingerprints,
                     coordinates |-> Some([i \in 1..Len(fingerprints) |->
                                              <<fingerprints[i].latitude,
                                                fingerprints[i].longitude>>]),
                     offered |-> Some(fingerprint),
                     returned |-> Some(TRUE) ]

\* fingerprints offered: two valid ones, with every coordinate and the field
\* on the edge of its range, and five that fail validation, by the latitude,
\* the longitude, the altitude, a weak field and a strong field
NextFingerprints ==
    \E fingerprint \in
          {[latitude |-> v[1], longitude |-> v[2], altitude |-> v[3], mag |-> v[4],
            quality_score |-> 100] :
             v \in {<<45, 120, 0, <<60, 80, 0>>>>,
                    <<-90, -180, -1000, <<0, 0, 1000>>>>,
                    <<91, 120, 0, <<60, 80, 0>>>>,
                    <<45, 181, 0, <<60, 80, 0>>>>,
                    <<45, 120, 100001, <<60, 80, 0>>>>,
                    <<45, 120, 0, <<60, 79, 0>>>>,
                    <<45, 120, 0, <<0, 0, 1001>>>>}},
       quality_score \in {10, 50, 80, 100} :
          /\ \/ Len(fingerprint_storage.fingerprints) < MaxFingerprints
             \/ ~ValidateFingerprint(fingerprint)
          /\ AddFingerprint(fingerprint, quality_score)
          /\ UNCHANGED <<imu, call, ret, host, mm, magnetic_model>>

SpecFingerprints == Init /\ [][NextFingerprints]_vars

-----------------------------------------------------------------------------
(* server.py: the mapping session routes, served by the handler threads of
   the HTTP server.  /mapping/start and /mapping/stop do their work inside
   `with mapping_lock:`; /mapping/data reads the session without the lock,
   adds the fingerprint, and takes the lock only to count it. *)

\* start_mapping_session, for a session id not used before
StartMappingSession ==
    /\ host.mapping.session = "none"
    /\ host' = [host EXCEPT !.mapping.session = "active", !.mapping.fingerprint_count = 0]
    /\ UNCHANGED <<imu, call, ret, mm, magnetic_model, fingerprint_storage>>

\* stop_mapping_session: 404 for an unknown session; otherwise the session is
\* marked inactive and its fingerprint_count is read for the response
StopMappingSession ==
    /\ host' = IF host.mapping.session = "none"
               THEN [host EXCEPT !.mapping.stopped_with = Some(-1)]
               ELSE [host EXCEPT !.mapping.session = "stopped",
                                 !.mapping.stopped_with = Some(host.mapping.fingerprint_count)]
    /\ UNCHANGED <<imu, call, ret, mm, magnetic_model, fingerprint_storage>>

\* receive_mapping_data: 400 unless the session exists and is active
ReceiveMappingDataCheck ==
    /\ host.mapping.data = "idle"
    /\ host' = IF host.mapping.session = "active"
               THEN [host EXCEPT !.mapping.data = "checked", !.mapping.answer = "none"]
               ELSE [host EXCEPT !.mapping.answer = "refused"]
    /\ UNCHANGED <<imu, call, ret, mm, magnetic_model, fingerprint_storage>>

\* receive_mapping_data: fingerprint_storage.add_fingerprint; 400 when it
\* returns False
ReceiveMappingDataAdd(fingerprint, quality_score) ==
    /\ host.mapping.data = "checked"
    /\ AddFingerprint(fingerprint, quality_score)
    /\ host' = IF ValidateFingerprint(fingerprint)
               THEN [host EXCEPT !.mapping.data = "added"]
               ELSE [host EXCEPT !.mapping.data = "idle", !.mapping.answer = "rejected"]
    /\ UNCHANGED <<imu, call, ret, mm, magnetic_model>>

\* receive_mapping_data: `with mapping_lock:` fingerprint_count += 1
ReceiveMappingDataCount ==
    /\ host.mapping.data = "added"
    /\ host' = [host EXCEPT !.mapping.data = "idle", !.mapping.answer = "success",
                            !.mapping.fingerprint_count = @ + 1]
    /\ UNCHANGED <<imu, call, ret, mm, magnetic_model, fingerprint_storage>>

\* one session, started, fed and stopped by requests that overlap
NextMapping ==
    \/ StartMappingSession
    \/ StopMappingSession
    \/ ReceiveMappingDataCheck
    \/ \E fingerprint \in
             {[latitude |-> 45, longitude |-> 120, altitude |-> 0, mag |-> m,
               quality_score |-> 100] : m \in {<<60, 80, 0>>, <<300, 400, 0>>, <<60, 79, 0>>}},
          quality_score \in {50, 100} :
             /\ Len(fingerprint_storage.fingerprints) < MaxFingerprints
             /\ ReceiveMappingDataAdd(fingerprint, quality_score)
    \/ ReceiveMappingDataCount

SpecMapping == Init /\ [][NextMapping]_vars

\* a device turning steadily at 45 deg/s, held level or leaning by 0.1 m/s^2,
\* or at rest, in a steady 10 Hz stream
NextSpin ==
    \/ \E x \in {Still, Rotate, [acc |-> <<10, 0, 981>>, gyro |-> <<0, 0, 450>>, mag |-> NoMag]}, ts \in WalkTimes(imu) : Update(x, ts, MaxSpin)
    \/ \E p \in PosInputs, h \in HeadingInputs : Reset(p, h)

SpecSpin == Init /\ [][NextSpin]_vars

\* a tracker on a stroll: a steady 10 Hz stream of rest and pushes, resets, and
\* the position written through the tracker's setter, inside and outside the
\* snap radius
NextStroll ==
    \/ \E x \in {Still, Push}, ts \in WalkTimes(imu) : Update(x, ts, MaxStroll)
    \/ \E p \in PosInputs, h \in HeadingInputs : Reset(p, h)
    \/ \E p \in {<<2000, 0>>, <<6000, 0>>} : SetPosition(p)

SpecStroll == Init /\ [][NextStroll]_vars

\* AdvancedTrailTracker.update; call holds what an estimator fed the same
\* sample directly would be handed: gyro = (0, 0, gyro_z)
TrackerUpdate(x, ts, cap) ==
    LET r == trackerUpdate(imu, x.acc, x.gyro_z, ts, x.mag)
    IN /\ r.path = "integrated" => Len(imu.history) < cap
       /\ imu' = r.state
       /\ call' = CallOf(imu, [acc |-> x.acc, gyro |-> <<0, 0, x.gyro_z>>, mag |-> x.mag], ts, r)
       /\ ret' = Some(GetState(r.state))
       /\ UNCHANGED <<host, mm, magnetic_model, fingerprint_storage>>

\* the tracker fed a stream of samples as it takes them (acceleration, yaw
\* rate, magnetometer), with resets and heading writes
NextFacade ==
    \/ \E x \in {[acc |-> y.acc, gyro_z |-> y.gyro[3], mag |-> y.mag] : y \in {Still, Turn, TurnMag, Shock}}, ts \in StreamTimes(imu) : TrackerUpdate(x, ts, MaxFacade)
    \/ \E h \in HeadingInputs : SetHeading(h)
    \/ TrackerReset

SpecFacade == Init /\ [][NextFacade]_vars

\* a stream whose clock starts before zero: the first sample is at -0.1 s or
\* at 0 s, each later sample repeats the last timestamp or follows it by 0.1 s
NextEarly ==
    \/ \E x \in {Still, Push, Shock},
           ts \in (IF IsNone(imu.last_timestamp) THEN {-1, 0}
                   ELSE {Val(imu.last_timestamp) + d : d \in {0, 1}}) :
          Update(x, ts, MaxEarly)
    \/ \E p \in PosInputs, h \in HeadingInputs : Reset(p, h)

SpecEarly == Init /\ [][NextEarly]_vars

\* a long rest: a steady 10 Hz stream of one reading, one sample longer than
\* the trail capacity
NextLong ==
    \/ \E ts \in WalkTimes(imu) : Update(Still, ts, TrailCapacity + 1)
    \/ \E p \in PosInputs, h \in HeadingInputs : Reset(p, h)

SpecLong == Init /\ [][NextLong]_vars

\* a stream in which magnetometer readings come and go
NextMag ==
    \/ \E x \in {StillMag, Turn, TurnMag, ShockMag,
                   [acc |-> <<0, 0, 981>>, gyro |-> <<0, 0, 9000>>,
                    mag |-> <<Some(0), Some(30), None>>]}, ts \in StreamTimes(imu) : Update(x, ts, MaxMag)
    \/ \E p \in PosInputs, h \in HeadingInputs : Reset(p, h)

SpecMag == Init /\ [][NextMag]_vars

-----------------------------------------------------------------------------
(* Properties *)

\* the timestamp of an update call has a dt that update rejects
RejectedDt(s, ts) ==
    /\ ~IsNone(s.last_timestamp)
    /\ (ts - Val(s.last_timestamp) <= 0 \/ ts - Val(s.last_timestamp) > TicksPerSec)

\* C1: an update with dt <= 0 or dt > 1.0 s on an estimator that has seen a
\* first sample leaves position, velocity, heading, is_stationary, the
\* counter, gravity, gyro bias, the buffers and the history as they were;
\* only last_timestamp changes.
C1_RejectedLeavesState ==
    [][(call'.path # "none" /\ RejectedDt(imu, call'.ts))
       => [imu' EXCEPT !.last_timestamp = imu.last_timestamp] = imu]_vars

\* a sample was rejected while the estimator was moving and had a trail
C1_Witness ==
    /\ call.path = "rejected"
    /\ imu.velocity # <<0, 0>>
    /\ Len(imu.history) > 0
    /\ imu.last_timestamp = Some(call.ts)

\* C2: a rejected sample with timestamp t sets last_timestamp to t, and the
\* next sample with 0 < t' - t <= 1.0 s is integrated, however far t' is from
\* the last integrated sample.
C2_RejectedAdvancesTimestamp ==
    [][/\ (call'.path # "none" /\ RejectedDt(imu, call'.ts))
          => imu'.last_timestamp = Some(call'.ts)
       /\ (call.path = "rejected" /\ call'.path # "none"
           /\ 0 < call'.ts - call.ts /\ call'.ts - call.ts <= TicksPerSec)
          => /\ Len(imu'.history) = Len(imu.history) + 1
             /\ imu'.history[Len(imu'.history)].t = call'.ts]_vars

\* a sample was integrated more than 1.0 s after the last integrated one
C2_Witness ==
    /\ call.path = "integrated"
    /\ Len(imu.history) >= 2
    /\ imu.history[Len(imu.history)].t = call.ts
    /\ call.ts - imu.history[Len(imu.history) - 1].t > TicksPerSec

\* C3 as stated: the integrated samples have strictly increasing timestamps.
C3_HistoryIncreasing ==
    \A i \in 1..(Len(imu.history) - 1) : imu.history[i].t < imu.history[i + 1].t

\* C3: a sample is integrated only if its timestamp is later than, and at
\* most 1.0 s after, the timestamp of the update call before it.
C3_IntegratedAfterLastCall ==
    [][Len(imu'.history) > Len(imu.history)
       => /\ ~IsNone(imu.last_timestamp)
          /\ imu'.history[Len(imu'.history)].t > Val(imu.last_timestamp)
          /\ imu'.history[Len(imu'.history)].t <= Val(imu.last_timestamp) + TicksPerSec]_vars

\* a sample was integrated whose timestamp is not later than that of the
\* integrated sample before it
C3_Witness ==
    /\ Len(imu.history) >= 2
    /\ imu.history[Len(imu.history)].t <= imu.history[Len(imu.history) - 1].t

C5_HeadingInRange ==
    /\ -HalfTurn < GetState(imu).heading_rad
    /\ GetState(imu).heading_rad <= HalfTurn

C7_FlagIsCounterAtLeastK ==
    /\ imu.is_stationary = (imu.stationary_windows >= StationaryRequiredWindows)
    /\ (call.path = "integrated" /\ ~call.is_candidate) => ~imu.is_stationary

\* a non-candidate sample cleared the flag of a stationary estimator
C7_Witness ==
    /\ call.path = "integrated"
    /\ ~call.is_candidate
    /\ Len(imu.history) >= 2
    /\ imu.history[Len(imu.history) - 1].is_stationary
    /\ ~imu.is_stationary

\* C8: an integrated update makes the counter old + 1 on a candidate and 0
\* otherwise; first and rejected samples leave it unchanged; it never
\* decreases except to 0.
C8_CounterSteps ==
    [][/\ call'.path = "integrated"
          => imu'.stationary_windows =
               IF call'.is_candidate THEN imu.stationary_windows + 1 ELSE 0
       /\ call'.path \in {"first", "rejected"}
          => imu'.stationary_windows = imu.stationary_windows
       /\ imu'.stationary_windows < imu.stationary_windows
          => imu'.stationary_windows = 0]_vars

\* a third candidate in a row was counted
C8_Witness ==
    /\ call.path = "integrated"
    /\ call.is_candidate
    /\ imu.stationary_windows = 3

\* C9: a stationary snapshot has velocity (0, 0), and an integrated update
\* that ends stationary leaves the position where it was, or at the origin
\* when snap-to-origin applies.
C9_StationaryMeansStopped ==
    [][/\ imu'.is_stationary => imu'.velocity = <<0, 0>>
       /\ (call'.path = "integrated" /\ imu'.is_stationary)
          => \/ imu'.position = imu.position
             \/ /\ imu'.position = imu.origin
                /\ Within(imu.position, imu.origin, Val(imu.snap_to_origin_radius))]_vars

\* the estimator became stationary while it was still moving
C9_Witness ==
    /\ call.path = "integrated"
    /\ imu.is_stationary
    /\ Len(imu.history) >= 2
    /\ imu.history[Len(imu.history) - 1].vel # <<0, 0>>
    /\ imu.velocity = <<0, 0>>

\* C10 as stated: a stream that repeats any reading of gravity magnitude,
\* with zero gyro, is stationary once more than K samples were fed.
C10_AnyConstantReadingStationary ==
    Len(imu.history) > StationaryRequiredWindows => imu.is_stationary

\* C10: a stream fed to a fresh estimator that repeats a reading of gravity
\* magnitude whose horizontal components are within the gravity thresholds,
\* with zero gyro, is stationary from the K-th integrated sample on, with
\* velocity (0, 0) and the same position in every stationary sample.
C10_LevelConstantReadingStationary ==
    (/\ call.path \in {"first", "integrated"}
     /\ Abs(call.acc[1]) <= UserGravityThresholdX
     /\ Abs(call.acc[2]) <= UserGravityThresholdY)
    => /\ Len(imu.history) >= StationaryRequiredWindows
          => (imu.is_stationary /\ imu.velocity = <<0, 0>>)
       /\ \A i \in 1..Len(imu.history) :
             /\ imu.history[i].is_stationary = (i >= StationaryRequiredWindows)
             /\ imu.history[i].vel = <<0, 0>>
             /\ imu.history[i].pos = imu.history[1].pos

\* a slightly tilted device at rest was declared stationary
C10_Witness ==
    /\ call.path = "integrated"
    /\ call.acc = Tilted.acc
    /\ Len(imu.history) > StationaryRequiredWindows
    /\ imu.is_stationary

C12_MagOnlyMovesHeading ==
    [][call'.path = "integrated"
       => LET bare == update(imu, call'.acc, call'.gyro, call'.ts, NoMag).state
              n == Len(imu'.history)
          IN /\ [imu' EXCEPT !.heading = bare.heading, !.history = bare.history] = bare
             /\ Len(bare.history) = n
             /\ [imu'.history[n] EXCEPT !.heading_deg = bare.history[n].heading_deg]
                  = bare.history[n]
             /\ (IsNone(call'.mag[1]) \/ IsNone(call'.mag[2]) \/ IsNone(call'.mag[3]))
                => imu'.heading
                   = WrapAngle(imu.heading
                               + (call'.gyro[3] - imu.gyro_bias[3]) * call'.dt)]_vars

\* a moving sample whose magnetometer reading pulled the heading from the
\* 90 deg the gyro gave to 112.5 deg
C12_Witness ==
    /\ call.path = "integrated"
    /\ call.mag = ShockMag.mag
    /\ imu.velocity # <<0, 0>>
    /\ WrapAngle(call.gyro[3] * call.dt) = HalfTurn \div 2
    /\ imu.heading = 11250

\* C13: reset(p, h) leaves an estimator whose snapshot has position p,
\* heading h, velocity (0, 0), is_stationary false and no last timestamp,
\* with an empty trail; its state is that of a fresh estimator with the same
\* arguments, and a second reset leaves it as it is.  The tracker's reset
\* does the same for position (0, 0) and heading 0.
C13_ResetIsFreshState ==
    [][/\ \A p \in PosInputs, h \in HeadingInputs :
            Reset(p, h)
            => /\ GetState(imu') = [position |-> p, velocity |-> <<0, 0>>, speed |-> 0,
                                    heading_rad |-> h, heading_deg |-> HeadingDeg(h),
                                    is_stationary |-> FALSE, last_timestamp |-> None]
               /\ imu'.history = <<>>
               /\ imu' = Construct(p, h, imu.sample_hz)
               /\ reset(imu', p, h) = imu'
       /\ TrackerReset
          => /\ imu' = Construct(<<0, 0>>, 0, imu.sample_hz)
             /\ trackerReset(imu') = imu']_vars

\* an estimator reset to position (0.6, 0) and heading 4.0 rad
C13_Witness ==
    /\ call = NoCall
    /\ imu.origin = <<6000, 0>>
    /\ GetState(imu).position = <<6000, 0>>
    /\ GetState(imu).heading_rad = 22918
    /\ imu.history = <<>>

\* C14: the trail holds at most its capacity of points (the part of the
\* claim about eviction presupposes it).
C14_TrailWithinCapacity == Len(imu.history) <= TrailCapacity

\* C15: the snapshot exposes a total distance, which is zero after
\* construction and after a reset.
C15_SnapshotHasTotalDistance ==
    /\ "total_distance" \in DOMAIN GetState(imu)
    /\ imu.history = <<>> => GetState(imu).total_distance = 0

\* C20: every update call returns the snapshot get_state gives right after
\* it, and that snapshot's last_timestamp is the timestamp just supplied,
\* the timestamp 0 included.
C20_ReturnsSnapshotWithTimestamp ==
    call.path # "none" =>
        /\ ret = Some(GetState(imu))
        /\ Val(ret).last_timestamp = Some(call.ts)

\* C16: from heading 0, 2.0 s of the rotation test's samples end with a
\* heading within 5% of a quarter turn and with the position where it started.
\* (The first integrated sample of the stream is not yet stationary, so the
\* stream started at heading 0 exactly when its first trail point is at 4.5 deg.)
C16_QuarterTurnInPlace ==
    (/\ Len(imu.history) = 20
     /\ imu.history[1].heading_deg = 450) =>
        /\ 20 * Abs(imu.heading - HalfTurn \div 2) <= HalfTurn \div 2
        /\ imu.position = imu.origin

\* C18: an integrated update that comes more than no_motion_timeout after the
\* last sample classified as moving leaves the velocity at (0, 0), whatever the
\* classification of the sample of the update itself.
C18_NoMotionTimeoutStops ==
    LET moving == {i \in 1..(Len(imu.history) - 1) : ~imu.history[i].is_stationary}
        last == IF moving = {} THEN 0 ELSE CHOOSE i \in moving : \A j \in moving : j <= i
    IN (/\ call.path = "integrated"
        /\ last > 0
        /\ call.ts - imu.history[last].t > NoMotionTimeout) =>
           imu.velocity = <<0, 0>>

C22_PixelRoundTrip ==
    mm.asked =>
        IF KnownMap(mm, mm.map_id)
        THEN /\ ~IsNone(mm.pixel)
             /\ ~IsNone(mm.back)
             /\ Abs(Val(mm.back)[1] - mm.world[1]) < 10
             /\ Abs(Val(mm.back)[2] - mm.world[2]) < 10
        ELSE mm.pixel = None /\ mm.back = None

\* a point converted on the active map, which is turned, off the origin and
\* of negative scale
C22_Witness ==
    /\ mm.asked
    /\ mm.map_id = None
    /\ KnownMap(mm, mm.map_id)
    /\ MapData(mm, mm.map_id).rotation_degrees = -45
    /\ MapData(mm, mm.map_id).scale_meters_per_pixel < 0
    /\ MapData(mm, mm.map_id).origin_x # 0
    /\ Val(mm.pixel) # mm.world
    /\ Abs(Val(mm.back)[1] - mm.world[1]) < 10

\* C23: on every moving integrated sample the damping multiplier is between 0
\* and 1, so that damping neither speeds the velocity up nor turns it round.
C23_DampingFactorInUnitRange ==
    (call.path = "integrated" /\ ~imu.is_stationary) =>
        DampingPercent(call.dt) \in 0..100

\* the world-frame acceleration update integrates on a moving sample
\* C24: on a moving integrated sample whose acceleration is at or above the
\* move threshold no damping is applied: the velocity is old velocity +
\* accel_world * dt, clamped and cut off.
C24_NoDampingAboveMoveThreshold ==
    [][LET accel_world_2d == Estimate(imu, Measure(imu, call'.acc, call'.gyro), call'.gyro,
                                      FALSE).accel_world_2d
       IN (/\ call'.path = "integrated"
           /\ ~imu'.is_stationary
           /\ SqNorm2(accel_world_2d) >= AccelMoveThreshold * AccelMoveThreshold) =>
              imu'.velocity =
                  Cutoff(ClampSpeed(<<imu.velocity[1] + accel_world_2d[1] * call'.dt,
                                      imu.velocity[2] + accel_world_2d[2] * call'.dt>>,
                                    MaxSpeed))]_vars

\* C26: an integrated update smooths the gravity estimate toward the unbiased
\* accelerometer reading exactly when the accelerometer magnitude is within
\* 1.5 m/s^2 of 9.81 and the gyro magnitude is below 5 * gyro_std_threshold,
\* stationary or not; otherwise it leaves the gravity estimate as it was.
C26_GravityGatedByMagnitudes ==
    [][call'.path = "integrated" =>
          imu'.gravity =
              IF /\ Abs(Measure(imu, call'.acc, call'.gyro).acc_mag - StdGravity) < GravityBand
                 /\ Measure(imu, call'.acc, call'.gyro).gyro_mag < 5 * GyroStdThreshold
              THEN Ema3(GravityAlphaPermille, 1000, imu.gravity,
                        Fine3(Measure(imu, call'.acc, call'.gyro).acc_unbiased))
              ELSE imu.gravity]_vars

\* C25: an update changes the gyro bias only on an integrated sample that is
\* stationary, to 0.99 * gyro_bias + 0.01 * raw_gyro; moving, first and
\* rejected samples leave it alone; no update changes the accelerometer bias;
\* otherwise the biases change only by a reset, which clears them.
C25_BiasesChangeOnlyWhenStationary ==
    [][/\ (call'.path = "integrated" /\ imu'.is_stationary) =>
              imu'.gyro_bias = Ema3(SmoothAlphaPercent, 100, imu.gyro_bias, call'.gyro)
       /\ (\/ call'.path \in {"first", "rejected"}
           \/ (call'.path = "integrated" /\ ~imu'.is_stationary)) =>
              imu'.gyro_bias = imu.gyro_bias
       /\ call'.path # "none" => imu'.accel_bias = imu.accel_bias
       /\ call'.path = "none" =>
              \/ imu'.gyro_bias = imu.gyro_bias /\ imu'.accel_bias = imu.accel_bias
              \/ imu' = reset(imu, imu'.position, imu'.heading)]_vars

\* a stationary sample taken while the gyro reads a turn has pulled the gyro
\* bias away from zero
C25_Witness ==
    /\ call.path = "integrated"
    /\ imu.is_stationary
    /\ call.gyro # <<0, 0, 0>>
    /\ imu.gyro_bias # <<0, 0, 0>>

\* C27: after an integrated update the speed is exactly 0 or at least
\* velocity_threshold; that is the speed the snapshot reports, and the velocity
\* the position was moved by.
C27_SpeedZeroOrAboveCutoff ==
    [][call'.path = "integrated" =>
          /\ \/ imu'.velocity = <<0, 0>>
             \/ SqNorm2(imu'.velocity) >= VelocityThreshold * VelocityThreshold
          /\ Val(ret').speed = Norm2(imu'.velocity)
          /\ \/ imu'.position = PositionStep(imu.position, imu'.velocity, call'.dt)
             \/ imu'.is_stationary /\ imu'.position = imu.origin]_vars

\* a moving sample whose damped velocity fell below the cutoff and was zeroed
C27_Witness ==
    /\ call.path = "integrated"
    /\ ~imu.is_stationary
    /\ imu.velocity = <<0, 0>>
    /\ Len(imu.history) >= 2
    /\ imu.history[Len(imu.history) - 1].vel # <<0, 0>>
    /\ imu.position = imu.history[Len(imu.history) - 1].pos

\* C28: after an integrated update that is stationary, with snapping enabled,
\* the position is the origin or at least snap_to_origin_radius away from it;
\* an update that is not stationary moves the position by velocity * dt and
\* never snaps; the origin is the position given at construction or reset and
\* nothing else changes it.
C28_SnapOnlyWhenStationary ==
    [][/\ (/\ call'.path = "integrated"
           /\ imu'.is_stationary
           /\ ~IsNone(imu'.snap_to_origin_radius)) =>
              \/ imu'.position = imu'.origin
              \/ ~Within(imu'.position, imu'.origin, Val(imu'.snap_to_origin_radius))
       /\ (call'.path = "integrated" /\ ~imu'.is_stationary) =>
              imu'.position = PositionStep(imu.position, imu'.velocity, call'.dt)
       /\ \/ imu'.origin = imu.origin
          \/ call'.path = "none" /\ imu' = reset(imu, imu'.origin, imu'.heading)]_vars

\* a stationary sample found the position off the origin, inside the radius,
\* and put it on the origin
C28_Witness ==
    /\ call.path = "integrated"
    /\ imu.is_stationary
    /\ imu.position = imu.origin
    /\ Len(imu.history) >= 2
    /\ imu.history[Len(imu.history) - 1].pos # imu.origin
    /\ imu.origin # <<0, 0>>

\* C29: every update of the tracker leaves the state, and returns the
\* snapshot, that the estimator's own update leaves and returns when it is
\* in the same state and is fed the same sample with gyro = (0, 0, gyro_z).
C29_TrackerUpdateIsEstimatorUpdate ==
    [][call'.path # "none" =>
          /\ imu' = update(imu, call'.acc, call'.gyro, call'.ts, call'.mag).state
          /\ ret' = Some(GetState(update(imu, call'.acc, call'.gyro, call'.ts, call'.mag).state))]_vars

\* the tracker integrated a sample with a yaw rate, and the heading turned
C29_Witness ==
    /\ call.path = "integrated"
    /\ call.gyro[3] # 0
    /\ Len(imu.history) = 2
    /\ imu.history[2].heading_deg # imu.history[1].heading_deg
    /\ ret = Some(GetState(imu))

C36_FirstUpdateOnlyInitialises ==
    [][call'.path = "first" =>
          /\ IsNone(imu.last_timestamp)
          /\ imu'.last_timestamp = Some(call'.ts)
          /\ imu'.last_motion_time = Some(call'.ts)
          /\ Coarse3(imu'.gravity) = call'.acc
          /\ imu'.position = imu.position
          /\ imu'.velocity = imu.velocity
          /\ imu'.heading = imu.heading
          /\ imu'.is_stationary = imu.is_stationary
          /\ imu'.stationary_windows = imu.stationary_windows
          /\ imu'.accel_mag_buf = imu.accel_mag_buf
          /\ imu'.gyro_mag_buf = imu.gyro_mag_buf
          /\ imu'.gravity_buf = imu.gravity_buf
          /\ imu'.user_acc_buf = imu.user_acc_buf
          /\ imu'.gravity_x_buf = imu.gravity_x_buf
          /\ imu'.gravity_y_buf = imu.gravity_y_buf
          /\ imu'.accel_bias = imu.accel_bias
          /\ imu'.gyro_bias = imu.gyro_bias
          /\ imu'.hp_state = imu.hp_state
          /\ imu'.history = imu.history
          /\ Len(imu'.history) = 0]_vars

\* the first sample after a reset to another position and heading was a
\* sideways jolt with a magnetometer reading: only the gravity estimate and the
\* timestamps took it in
C36_Witness ==
    /\ call.path = "first"
    /\ call.acc = ShockMag.acc
    /\ imu.gravity = Fine3(ShockMag.acc)
    /\ imu.last_timestamp = Some(1)
    /\ imu.position = <<6000, 0>>
    /\ imu.heading = 22918
    /\ imu.velocity = <<0, 0>>
    /\ imu.history = <<>>

\* C37: a first or rejected sample adds no trail point and an integrated
\* sample adds exactly one, so the trail has one point per integrated update
\* since construction or the last reset; right after an integrated update the
\* newest trail point carries the position, speed and timestamp of the
\* snapshot that update returned.
C37_TrailPointPerIntegratedUpdate ==
    [][/\ call'.path \in {"first", "rejected"} => imu'.history = imu.history
       /\ call'.path = "none" => imu'.history \in {imu.history, <<>>}
       /\ call'.path = "integrated" =>
              /\ Len(imu'.history) = Len(imu.history) + 1
              /\ SubSeq(imu'.history, 1, Len(imu.history)) = imu.history
              /\ imu'.history[Len(imu'.history)].pos = Val(ret').position
              /\ imu'.history[Len(imu'.history)].speed = Val(ret').speed
              /\ Some(imu'.history[Len(imu'.history)].t) = Val(ret').last_timestamp]_vars

\* C40: after every upload_map, update_map_calibration, set_active_map and
\* delete_map call active_map_id is None or the id of a stored map; a
\* set_active_map or delete_map call with an unknown id returns False and
\* leaves the maps and the active map as they were.
C40_ActiveMapIsStored ==
    [][/\ \/ IsNone(mm'.active_map_id)
          \/ Val(mm'.active_map_id) \in DOMAIN mm'.maps
       /\ (/\ mm'.op \in {"set_active_map", "delete_map"}
           /\ Val(mm'.arg) \notin DOMAIN mm.maps) =>
              /\ mm'.returned = Some(FALSE)
              /\ mm'.maps = mm.maps
              /\ mm'.active_map_id = mm.active_map_id]_vars

\* the active map "plan" was deleted while "annex" stays stored: no map is
\* active any more
C40_Witness ==
    /\ mm.op = "delete_map"
    /\ mm.arg = Some("plan")
    /\ mm.returned = Some(TRUE)
    /\ mm.active_before = Some("plan")
    /\ IsNone(mm.active_map_id)
    /\ DOMAIN mm.maps = {"annex"}

\* C33: the cache never holds more than 100 entries; a call that inserts a new
\* key into a full cache drops exactly the earliest-inserted entry and keeps
\* the others in order, a call that inserts into a cache with room drops
\* nothing; a call whose rounded key is cached returns the cached field and
\* leaves the cache unchanged.
C33_CacheBoundedFifo ==
    [][LET old == magnetic_model._cache
           new == magnetic_model'._cache
           key == CacheKey(Val(magnetic_model'.latitude))
           cached == {i \in 1..Len(old) : old[i].key = key}
       IN /\ Len(new) <= CacheMaxSize
          /\ magnetic_model'.outcome = "miss" =>
                 /\ cached = {}
                 /\ new = Append(IF Len(old) = CacheMaxSize THEN Tail(old) ELSE old,
                                 [key |-> key, value |-> Val(magnetic_model'.returned)])
          /\ (magnetic_model'.outcome \in {"hit", "miss", "RuntimeError"} /\ cached # {}) =>
                 /\ magnetic_model'.outcome = "hit"
                 /\ new = old
                 /\ \E i \in cached : magnetic_model'.returned = Some(old[i].value)]_vars

\* the cache was full, a position not asked for before was asked for, the
\* oldest position left the cache; asked for again, south of its key this
\* time, the newest position came from the cache with the field computed when
\* it was first asked for
C33_Witness ==
    /\ Len(magnetic_model._cache) = CacheMaxSize
    /\ magnetic_model.inserted = CacheMaxSize + 1
    /\ magnetic_model._cache[1].key = 6
    /\ magnetic_model.outcome = "hit"
    /\ magnetic_model.latitude = Some(10 * (5 + CacheMaxSize) - 2)
    /\ magnetic_model.returned = Some(10 * (5 + CacheMaxSize) + 3)

C31_RecentDataBounded ==
    LET n == Len(host.recent_data)
    IN /\ n <= 100
       /\ n = IF host.stored < 100 THEN host.stored ELSE 100
       /\ \A i \in 1..n : host.recent_data[i] = host.stored - n + i
       /\ host.stats.udp_packets + host.stats.http_packets = host.stored

\* the buffer is full and two packets have been dropped, with packets of both
\* sources counted
C31_Witness ==
    /\ host.stored = 102
    /\ Len(host.recent_data) = 100
    /\ Head(host.recent_data) = 3
    /\ host.stats.udp_packets > 0 /\ host.stats.http_packets > 0

\* C39: for every limit >= 0, GET /recent returns the limit most recently
\* stored packets (all of them when fewer are stored), never more than limit,
\* and the reported count is the number of packets returned.
C39_RecentReturnsAtMostLimit ==
    [][(host'.recent # host.recent /\ host'.recent # None) =>
          LET r == Val(host'.recent)
              n == Len(host.recent_data)
              k == IF n < r.limit THEN n ELSE r.limit
          IN r.limit >= 0 =>
                /\ r.data = SubSeq(host.recent_data, n - k + 1, n)
                /\ Len(r.data) <= r.limit
                /\ r.count = Len(r.data)]_vars

\* C38: whenever no process_sensor_data call is under way, total_packets is
\* the number of packets processed and equals udp_packets + http_packets.
C38_NoLostIncrement ==
    (\A t \in Ingest : host.pc[t] = "idle") =>
        /\ host.stats.total_packets = host.stored
        /\ host.stats.total_packets = host.stats.udp_packets + host.stats.http_packets

====
